---------------------------- MODULE Spec2Model ----------------------------
(***************************************************************************)
(* The request execution and caching engine of ApiClient                   *)
(* (src/04-projects/api-integration.ts): the verb entry points, request,    *)
(* fetchWithRetry, the TTL cache and the timeout timer, as a state machine. *)
(*                                                                         *)
(* One action is one run of the event loop: the synchronous code of a      *)
(* handler together with the promise continuations (microtasks) that       *)
(* follow it.  The transport (fetch), the body parser (response.json), the *)
(* timers and the clock (Date.now) belong to the host: when they settle or *)
(* fire, and with what, is chosen nondeterministically.                    *)
(***************************************************************************)
EXTENDS Integers, Sequences, FiniteSets, TLC

(***************************************************************************)
(* Bounds of the model.                                                    *)
(***************************************************************************)
MaxTime == 2         \* the clock runs over 0..MaxTime
MaxRetries == 2      \* the largest retries a caller passes

(***************************************************************************)
(* Program constants.                                                      *)
(***************************************************************************)
DefaultRetries == 0         \* config.retries || 0
DefaultRetryDelay == 1000   \* config.retryDelay || 1000
StatusTimeout == 408        \* new ApiError("Request timeout", 408)
StatusUnknown == 0          \* new ApiError(message, 0)
DefaultTtl == 60000         \* saveToCache(key, data, ttl = 60000)
DefaultTimeout == 30000     \* this.defaultTimeout = 30000

(***************************************************************************)
(* JavaScript values.  A value is a record [t, v]: t its type, v a         *)
(* sequence of integers.  A number n is <<n>>; an object is {} for <<>>    *)
(* and {"id": n} for <<n>>.                                                *)
(***************************************************************************)
Undef == [t |-> "undefined", v |-> <<>>]
Null == [t |-> "null", v |-> <<>>]
Num(n) == [t |-> "number", v |-> <<n>>]
EmptyObj == [t |-> "object", v |-> <<>>]
Obj(n) == [t |-> "object", v |-> <<n>>]
\* an object that refers to itself: JSON.stringify throws a TypeError on it
Circular == [t |-> "circular", v |-> <<>>]

\* ToBoolean: undefined, null and 0 are falsy, every object is truthy.
Truthy(x) == ~(x.t \in {"undefined", "null"} \/ (x.t = "number" /\ x.v[1] = 0))

\* a || b
OrElse(a, b) == IF Truthy(a) THEN a ELSE b

\* JSON.stringify throws on the value
Throws(x) == x.t = "circular"

\* JSON.stringify of a value.
Stringify(x) ==
    CASE x.t = "number" -> ToString(x.v[1])
      [] x.t = "null" -> "null"
      [] x.t = "object" /\ x.v = <<>> -> "{}"
      [] x.t = "object" /\ x.v # <<>> -> "{\"id\":" \o ToString(x.v[1]) \o "}"
      [] OTHER -> "undefined"

(***************************************************************************)
(* The inputs callers pass and the host answers with.  Spec explores the   *)
(* cache over two endpoints with plain configs; SpecConfig explores the    *)
(* configs a caller can pass (retries, retryDelay, a method field) over    *)
(* one endpoint at one instant of the clock.                               *)
(***************************************************************************)
Calls == {1}
MutatingVerbs == {"POST", "PUT", "PATCH"}
Endpoints == {"/a", "/b"}
OneEndpoint == {"/a"}
\* response bodies: a falsy one and truthy ones
Payloads == {Num(0), Obj(1), Obj(2)}
\* request bodies of post, put and patch
Bodies == {Obj(1)}
\* cacheTtl of get: omitted, zero, negative, positive
Ttls == {Undef, Num(0), Num(-1), Num(1), Num(2)}
FewTtls == {Undef, Num(-1), Num(1)}
\* response.status: one in the success range, others outside it
Statuses == {200, 404}
RetryChoices == {Undef} \cup {Num(r) : r \in 0..MaxRetries}
DelayChoices == {Undef, Num(1), Num(2)}

\* Record<string, string>: a function from header names to values
NoHeaders == [k \in {} |-> ""]
Header(k, x) == [n \in {k} |-> x]

\* (mutant) a key of a is kept when b has the same key
Merge_FirstWins(a, b) ==
    [k \in DOMAIN a \cup DOMAIN b |-> IF k \in DOMAIN a THEN a[k] ELSE b[k]]

\* { ...a, ...b }: a key of b replaces the same key of a
Merge(a, b) == [k \in DOMAIN a \cup DOMAIN b |-> IF k \in DOMAIN b THEN b[k] ELSE a[k]]

\* Partial<RequestConfig>: an absent field is Undef (NoMethod, NoHeaders).
Config(m, b, r, d) ==
    [method |-> m, body |-> b, retries |-> r, retryDelay |-> d,
     headers |-> NoHeaders, timeout |-> Undef]
NoMethod == "none"
\* a config with headers and a timeout
ConfigWith(m, b, h, t) == [Config(m, b, Undef, Undef) EXCEPT !.headers = h, !.timeout = t]
PlainConfig == Config(NoMethod, Undef, Undef, Undef)
\* configs of Spec: plain, and with one retry
GetConfigs == {PlainConfig, Config(NoMethod, Undef, Num(1), Num(1))}
MutConfigs == {PlainConfig}
\* configs of SpecConfig: every retries and retryDelay, and a method field
WideConfigs ==
    {Config(NoMethod, Undef, r, d) : r \in RetryChoices, d \in DelayChoices}
      \cup {Config("POST", Undef, Undef, Undef)}

\* { method: m, body: b, ...config }: a field of config that is present wins.
Spread(m, b, config) ==
    [method |-> IF config.method # NoMethod THEN config.method ELSE m,
     body |-> IF config.body # Undef THEN config.body ELSE b,
     retries |-> config.retries,
     retryDelay |-> config.retryDelay,
     headers |-> config.headers,
     timeout |-> config.timeout]

(***************************************************************************)
(* The cache: a Map from key to CacheEntry.                                *)
(***************************************************************************)
NoKey == ""
NoCache == [k \in {} |-> 0]

\* (mutant) the key tells requests with an Authorization header apart
getCacheKey_WithAuth(endpoint, config) ==
    config.method \o ":" \o endpoint \o ":" \o Stringify(OrElse(config.body, EmptyObj))
        \o (IF "Authorization" \in DOMAIN config.headers THEN ":auth" ELSE "")

\* getCacheKey
getCacheKey(endpoint, config) ==
    config.method \o ":" \o endpoint \o ":" \o Stringify(OrElse(config.body, EmptyObj))

\* (mutant) an entry is no longer live at now = expiresAt
CacheLive_Exclusive(c, key, t) == key \in DOMAIN c /\ t < c[key].expiresAt

\* (mutant) an entry is served however old it is
CacheLive_NoExpiry(c, key, t) == key \in DOMAIN c

\* getFromCache: whether the lookup finds a live entry
CacheLive(c, key, t) == key \in DOMAIN c /\ ~(t > c[key].expiresAt)

\* getFromCache: the value returned
getFromCache(c, key, t) == IF CacheLive(c, key, t) THEN c[key].data ELSE Null

\* (mutant) a lookup that finds a live entry restarts its timestamp (sliding
\* expiration)
CacheAfterGet_Refresh(c, key, t) ==
    IF key \in DOMAIN c /\ t > c[key].expiresAt
    THEN [k \in DOMAIN c \ {key} |-> c[k]]
    ELSE IF key \in DOMAIN c
    THEN [c EXCEPT ![key].timestamp = t]
    ELSE c

\* getFromCache: the map it leaves (an expired entry is deleted)
CacheAfterGet(c, key, t) ==
    IF key \in DOMAIN c /\ t > c[key].expiresAt
    THEN [k \in DOMAIN c \ {key} |-> c[k]]
    ELSE c

\* (mutant) an entry that is present is not replaced
saveToCache_KeepExisting(c, key, data, ttl, t) ==
    LET ms == IF ttl = Undef THEN DefaultTtl ELSE ttl.v[1]
    IN [k \in DOMAIN c \cup {key} |->
          IF k \in DOMAIN c
          THEN c[k]
          ELSE [data |-> data, timestamp |-> t, expiresAt |-> t + ms]]

\* saveToCache (ttl = 60000 when the argument is undefined)
saveToCache(c, key, data, ttl, t) ==
    LET ms == IF ttl = Undef THEN DefaultTtl ELSE ttl.v[1]
    IN [k \in DOMAIN c \cup {key} |->
          IF k = key
          THEN [data |-> data, timestamp |-> t, expiresAt |-> t + ms]
          ELSE c[k]]

(***************************************************************************)
(* State.                                                                  *)
(***************************************************************************)
VARIABLES
    now,      \* Date.now()
    cache,    \* this.cache
    made,     \* history: key -> method and ttl of the call that stored cache[key]
    calls,    \* the state of each logical call
    defaultHeaders   \* this.defaultHeaders

vars == <<now, cache, made, calls, defaultHeaders>>

NoErr == [name |-> "none", status |-> -1, response |-> Undef]
\* an error that is not an ApiError
RawError(name) == [name |-> name, status |-> -1, response |-> Undef]
ApiError(status, response) == [name |-> "ApiError", status |-> status, response |-> response]

\* the errors thrown inside the try of request: by fetch, by the abort signal,
\* by response.json(), by JSON.stringify and by request itself (line 180)
NoThrown == [name |-> "none", message |-> ""]
FetchFailure == [name |-> "TypeError", message |-> "fetch failed"]
AbortFailure == [name |-> "AbortError", message |-> "This operation was aborted"]
ParseFailure == [name |-> "SyntaxError", message |-> "Unexpected end of JSON input"]
StringifyFailure ==
    [name |-> "TypeError", message |-> "Converting circular structure to JSON"]
HttpFailure(status) == [name |-> "ApiError", message |-> "HTTP " \o ToString(status)]

\* (mutant) every error that is not an ApiError or an AbortError gets the
\* message "Unknown error"
MessageOf_Unknown(thrown) ==
    IF thrown.name = "ApiError" THEN thrown.message
    ELSE IF thrown.name = "AbortError" THEN "Request timeout"
    ELSE "Unknown error"

\* the message of the error the catch of request raises: an ApiError is
\* rethrown, an AbortError becomes "Request timeout", any other Error keeps
\* its message
MessageOf(thrown) ==
    IF thrown.name = "AbortError" THEN "Request timeout" ELSE thrown.message

\* the constructor: { "Content-Type": "application/json", ...defaultHeaders }
Construct(headers) == Merge(Header("Content-Type", "application/json"), headers)

\* options.body of a request without a body
NoBody == ""
NoOptions == [method |-> NoMethod, headers |-> NoHeaders, body |-> NoBody]

\* A call slot that holds no call.
IdleCall ==
    [pc |-> "idle",          \* idle, inflight, backoff, parsing, done, failed
     entry |-> "none",       \* the entry point called
     endpoint |-> "none",
     args |-> [body |-> Undef, config |-> Config(NoMethod, Undef, Undef, Undef)],
                             \* history: the body and config the caller passed
     config |-> Config(NoMethod, Undef, Undef, Undef),   \* the RequestConfig
     options |-> NoOptions,  \* the RequestInit passed to fetch
     timeout |-> 0,          \* the delay the timeout timer was armed with
     key |-> NoKey,          \* cacheKey of get
     ttl |-> Undef,          \* cacheTtl of get
     lookup |-> "none",      \* history: what getFromCache found: none (not
                             \* called), absent, expired, live
     retries |-> 0,          \* retries of the running fetchWithRetry
     delay |-> 0,            \* delay of the running fetchWithRetry
     attempts |-> 0,         \* history: invocations of fetch
     netFails |-> 0,         \* history: attempts the transport rejected itself
     aborts |-> 0,           \* history: attempts the abort signal rejected
     waits |-> <<>>,         \* history: delays passed to setTimeout for a retry
     timer |-> "none",       \* none, armed, fired, cleared
     status |-> 0,           \* response.status (0: no response yet)
     data |-> Undef,         \* data of request (Undef: not parsed)
     result |-> Undef,       \* the value the entry point returned
     err |-> NoErr,          \* the error the entry point raised
     message |-> "",         \* the message of that error
     thrown |-> NoThrown,    \* history: the last error caught in request or
                             \* fetchWithRetry
     cleared |-> FALSE]      \* history: clearCache ran while the call was
                             \* awaiting (written by ClearCacheSeen only)

Init ==
    /\ now = 0
    /\ cache = NoCache
    /\ made = NoCache
    /\ calls = [c \in Calls |-> IdleCall]
    /\ defaultHeaders = Construct(NoHeaders)


(***************************************************************************)
(* request and fetchWithRetry.                                             *)
(***************************************************************************)
\* (mutant) the last retry is not made
ShouldRetry_OffByOne(retries) == retries > 1

\* (mutant) a retry is made at 0 too
ShouldRetry_AtZero(retries) == retries >= 0

\* if (retries > 0)
ShouldRetry(retries) == retries > 0

\* (mutant) the delay is not doubled
NextDelay_Constant(delay) == delay

\* delay * 2
NextDelay(delay) == delay * 2

\* response.ok
ResponseOk(status) == status \in 200..299

\* (mutant) the timer is never cancelled
ClearTimeout_Never(timer) == timer

\* clearTimeout(timeoutId): a timer that fired stays fired
ClearTimeout(timer) == IF timer = "armed" THEN "cleared" ELSE timer

\* (mutant) every error that is not an ApiError has status 0
Classify_AllUnknown(errName) == ApiError(StatusUnknown, Undef)

\* the catch of request: an AbortError is a timeout, any other error that is
\* not an ApiError has status 0
Classify(errName) ==
    IF errName = "AbortError"
    THEN ApiError(StatusTimeout, Undef)
    ELSE ApiError(StatusUnknown, Undef)

\* const timeout = config.timeout || this.defaultTimeout
TimeoutOf(config) == OrElse(config.timeout, Num(DefaultTimeout)).v[1]

\* if (config.body && config.method !== "GET")
AttachBody(config) == Truthy(config.body) /\ config.method # "GET"

\* headers: { ...this.defaultHeaders, ...config.headers }
HeadersOf(defaults, config) == Merge(defaults, config.headers)

\* the RequestInit request builds
OptionsOf(defaults, config) ==
    [method |-> config.method,
     headers |-> HeadersOf(defaults, config),
     body |-> IF AttachBody(config) THEN Stringify(config.body) ELSE NoBody]

\* request up to its first await: the timer is armed with timeout, the
\* options are built and fetchWithRetry invokes fetch with config.retries || 0
\* and config.retryDelay || 1000. A JSON.stringify of the body that throws is
\* caught by the catch of request before fetch is invoked.
StartRequest(call, entry, endpoint, config) ==
    IF AttachBody(config) /\ Throws(config.body)
    THEN [call EXCEPT
            !.pc = "failed",
            !.entry = entry,
            !.endpoint = endpoint,
            !.config = config,
            !.timeout = TimeoutOf(config),
            !.timer = "cleared",
            !.thrown = StringifyFailure,
            !.err = Classify("TypeError"),
            !.message = MessageOf(StringifyFailure)]
    ELSE [call EXCEPT
            !.pc = "inflight",
            !.entry = entry,
            !.endpoint = endpoint,
            !.config = config,
            !.options = OptionsOf(defaultHeaders, config),
            !.timeout = TimeoutOf(config),
            !.retries = OrElse(config.retries, Num(DefaultRetries)).v[1],
            !.delay = OrElse(config.retryDelay, Num(DefaultRetryDelay)).v[1],
            !.attempts = 1,
            !.timer = "armed"]

\* (mutant) an AbortError is not retried
Rejected_AbortTerminal(call, errName) ==
    IF ShouldRetry(call.retries) /\ errName # "AbortError"
    THEN [call EXCEPT !.pc = "backoff", !.waits = Append(@, call.delay)]
    ELSE [call EXCEPT
            !.pc = "failed",
            !.timer = ClearTimeout(@),
            !.err = Classify(errName),
            !.message = MessageOf(call.thrown)]

\* (mutant) with retries left fetch is invoked again at once, without the
\* backoff wait
Rejected_RetryAtOnce(call, errName) ==
    IF ShouldRetry(call.retries)
    THEN [call EXCEPT
            !.pc = "inflight",
            !.retries = @ - 1,
            !.delay = NextDelay(@),
            !.attempts = @ + 1]
    ELSE [call EXCEPT
            !.pc = "failed",
            !.timer = ClearTimeout(@),
            !.err = Classify(errName),
            !.message = MessageOf(call.thrown)]

\* the catch of fetchWithRetry for a rejection named errName: with retries
\* left it starts the backoff wait; without, the error reaches the catch of
\* request, which clears the timer and raises the classified ApiError.
Rejected(call, errName) ==
    IF ShouldRetry(call.retries)
    THEN [call EXCEPT !.pc = "backoff", !.waits = Append(@, call.delay)]
    ELSE [call EXCEPT
            !.pc = "failed",
            !.timer = ClearTimeout(@),
            !.err = Classify(errName),
            !.message = MessageOf(call.thrown)]

\* the backoff wait is over: fetchWithRetry(url, options, retries - 1,
\* delay * 2) invokes fetch; with the signal already aborted fetch rejects
\* at once with an AbortError.
Retried(call) ==
    LET next == [call EXCEPT
                    !.pc = "inflight",
                    !.retries = @ - 1,
                    !.delay = NextDelay(@),
                    !.attempts = @ + 1]
    IN IF call.timer = "fired"
       THEN Rejected([next EXCEPT !.aborts = @ + 1, !.thrown = AbortFailure], "AbortError")
       ELSE next

\* (mutant) a response with a non-success status is retried like a
\* transport failure
Responded_RetryOnHttpError(call, status) ==
    IF status \in 200..299
    THEN [call EXCEPT !.pc = "parsing", !.timer = ClearTimeout(@), !.status = status]
    ELSE Rejected([call EXCEPT !.status = status, !.thrown = HttpFailure(status)],
                  "HttpError")

\* (mutant) the timer is left running while the body is parsed
Responded_KeepTimer(call, status) ==
    [call EXCEPT !.pc = "parsing", !.status = status]

\* fetch resolved: the timer is cleared and response.json() is awaited.
Responded(call, status) ==
    [call EXCEPT !.pc = "parsing", !.timer = ClearTimeout(@), !.status = status]

\* response.json() resolved with data: an ApiError for a non-success status,
\* the data otherwise.
Parsed(call, data) ==
    IF ~ResponseOk(call.status)
    THEN [call EXCEPT
            !.pc = "failed",
            !.data = data,
            !.timer = ClearTimeout(@),
            !.thrown = HttpFailure(call.status),
            !.err = ApiError(call.status, data),
            !.message = MessageOf(HttpFailure(call.status))]
    ELSE [call EXCEPT !.pc = "done", !.data = data, !.result = data]

\* response.json() rejected with a SyntaxError.
ParseFailed(call) ==
    [call EXCEPT
        !.pc = "failed",
        !.timer = ClearTimeout(@),
        !.thrown = ParseFailure,
        !.err = Classify("SyntaxError"),
        !.message = MessageOf(ParseFailure)]

\* (mutant) the data is stored whether request returned or threw
CacheAfterRequest_Always(c, call, t) ==
    IF call.key # NoKey /\ call.data # Undef
    THEN saveToCache(c, call.key, call.data, call.ttl, t)
    ELSE c

\* (mutant) a successful post, put, patch or delete removes the entry of a
\* plain get of its endpoint
CacheAfterRequest_Invalidate(c, call, t) ==
    IF call.pc = "done" /\ call.key # NoKey
    THEN saveToCache(c, call.key, call.data, call.ttl, t)
    ELSE IF call.pc = "done" /\ call.entry # "GET"
    THEN [k \in DOMAIN c \ {"GET:" \o call.endpoint \o ":{}"} |-> c[k]]
    ELSE c

\* (mutant) a get during whose flight the cache was cleared stores nothing
CacheAfterRequest_NotAfterClear(c, call, t) ==
    IF call.pc = "done" /\ call.key # NoKey /\ ~call.cleared
    THEN saveToCache(c, call.key, call.data, call.ttl, t)
    ELSE c

\* get after request returned: saveToCache(cacheKey, response.data, cacheTtl)
\* in the caching branch, and only when request did not throw.
CacheAfterRequest(c, call, t) ==
    IF call.pc = "done" /\ call.key # NoKey
    THEN saveToCache(c, call.key, call.data, call.ttl, t)
    ELSE c

\* history: who stored the entries of the map next: an entry that request
\* stored or replaced is the call's, every other entry keeps its maker.
MadeAfterRequest(next, call) ==
    [k \in DOMAIN next |->
        IF k \in DOMAIN cache /\ k \in DOMAIN made /\ next[k] = cache[k]
        THEN made[k]
        ELSE [method |-> call.config.method,
              ttl |-> call.ttl,
              endpoint |-> call.endpoint,
              body |-> call.config.body,
              headers |-> call.options.headers]]

(***************************************************************************)
(* The entry points.                                                       *)
(***************************************************************************)
\* (mutant) if (cacheTtl !== undefined)
UseCache_Defined(cacheTtl) == cacheTtl # Undef

\* if (cacheTtl)
UseCache(cacheTtl) == Truthy(cacheTtl)

\* if (cached)
IsHit(cached) == Truthy(cached)

LookupOf(c, key, t) ==
    IF key \notin DOMAIN c THEN "absent"
    ELSE IF t > c[key].expiresAt THEN "expired" ELSE "live"

\* getCacheKey throws: JSON.stringify(config.body || {}) of get runs outside
\* the try of request
KeyThrows(config) == Throws(OrElse(config.body, EmptyObj))

\* get(endpoint, config, cacheTtl) up to its first await.
Get(c, endpoint, config, cacheTtl) ==
    LET fullConfig == Spread("GET", Undef, config)
        cacheKey == getCacheKey(endpoint, fullConfig)
        cached == getFromCache(cache, cacheKey, now)
        after == CacheAfterGet(cache, cacheKey, now)
        start == [IdleCall EXCEPT !.args = [body |-> Undef, config |-> config]]
    IN /\ calls[c].pc = "idle"
       /\ IF UseCache(cacheTtl) /\ KeyThrows(fullConfig)
          THEN /\ calls' = [calls EXCEPT ![c] =
                    [start EXCEPT
                        !.pc = "failed",
                        !.entry = "GET",
                        !.endpoint = endpoint,
                        !.config = fullConfig,
                        !.ttl = cacheTtl,
                        !.err = RawError("TypeError")]]
               /\ UNCHANGED <<cache, made>>
          ELSE IF UseCache(cacheTtl)
          THEN /\ cache' = after
               /\ made' = [k \in DOMAIN after |-> made[k]]
               /\ calls' = [calls EXCEPT ![c] =
                    IF IsHit(cached)
                    THEN [start EXCEPT
                            !.pc = "done",
                            !.entry = "GET",
                            !.endpoint = endpoint,
                            !.config = fullConfig,
                            !.key = cacheKey,
                            !.ttl = cacheTtl,
                            !.lookup = LookupOf(cache, cacheKey, now),
                            !.result = cached]
                    ELSE [StartRequest(start, "GET", endpoint, fullConfig) EXCEPT
                            !.key = cacheKey,
                            !.ttl = cacheTtl,
                            !.lookup = LookupOf(cache, cacheKey, now)]]
          ELSE /\ calls' = [calls EXCEPT ![c] =
                    [StartRequest(start, "GET", endpoint, fullConfig) EXCEPT
                        !.ttl = cacheTtl]]
               /\ UNCHANGED <<cache, made>>
       /\ UNCHANGED <<now, defaultHeaders>>

\* post, put and patch (verb, endpoint, body, config) and delete (body Undef)
\* up to the first await.
Mutate(c, verb, endpoint, body, config) ==
    /\ calls[c].pc = "idle"
    /\ calls' = [calls EXCEPT ![c] =
            StartRequest([IdleCall EXCEPT !.args = [body |-> body, config |-> config]],
                         verb, endpoint, Spread(verb, body, config))]
    /\ UNCHANGED <<now, cache, made, defaultHeaders>>

\* (mutant) clearCache removes the expired entries only
ClearCache_ExpiredOnly ==
    /\ cache' = [k \in {j \in DOMAIN cache : now <= cache[j].expiresAt} |-> cache[k]]
    /\ made' = [k \in DOMAIN cache' |-> made[k]]
    /\ UNCHANGED <<now, calls, defaultHeaders>>

\* clearCache()
ClearCache ==
    /\ cache' = NoCache
    /\ made' = NoCache
    /\ UNCHANGED <<now, calls, defaultHeaders>>

\* clearCache() with its history: the calls that are awaiting are marked
ClearCacheSeen ==
    /\ cache' = NoCache
    /\ made' = NoCache
    /\ calls' = [c \in DOMAIN calls |->
            IF calls[c].pc \in {"inflight", "backoff", "parsing"}
            THEN [calls[c] EXCEPT !.cleared = TRUE]
            ELSE calls[c]]
    /\ UNCHANGED <<now, defaultHeaders>>

(***************************************************************************)
(* The host: the transport, the parser, the timers and the clock.          *)
(***************************************************************************)
\* fetch resolves with a response of the given status.
FetchResolve(c, status) ==
    /\ calls[c].pc = "inflight"
    /\ calls' = [calls EXCEPT ![c] = Responded(@, status)]
    /\ UNCHANGED <<now, cache, made, defaultHeaders>>

\* fetch rejects by itself: a transport-level failure (a TypeError).
FetchReject(c) ==
    /\ calls[c].pc = "inflight"
    /\ calls' = [calls EXCEPT ![c] =
            Rejected([@ EXCEPT !.netFails = @ + 1, !.thrown = FetchFailure], "TypeError")]
    /\ UNCHANGED <<now, cache, made, defaultHeaders>>

\* the timeout timer fires, which it can do as long as it is armed:
\* controller.abort(); a fetch in flight rejects with an AbortError, and so
\* does a response.json() that is reading the body.
TimerFire(c) ==
    /\ calls[c].timer = "armed"
    /\ calls' = [calls EXCEPT ![c] =
            IF @.pc = "inflight"
            THEN Rejected([@ EXCEPT !.timer = "fired", !.aborts = @ + 1,
                                    !.thrown = AbortFailure], "AbortError")
            ELSE IF @.pc = "parsing"
            THEN [@ EXCEPT
                    !.pc = "failed",
                    !.timer = "fired",
                    !.thrown = AbortFailure,
                    !.err = Classify("AbortError"),
                    !.message = MessageOf(AbortFailure)]
            ELSE [@ EXCEPT !.timer = "fired"]]
    /\ UNCHANGED <<now, cache, made, defaultHeaders>>

\* (mutant) the backoff delay is one field of the engine: a retry of one
\* call doubles the delay of every call
RetryWake_SharedDelay(c) ==
    /\ calls[c].pc = "backoff"
    /\ calls' = [d \in DOMAIN calls |->
            IF d = c
            THEN Retried(calls[d])
            ELSE IF calls[d].pc \in {"inflight", "backoff"}
            THEN [calls[d] EXCEPT !.delay = NextDelay(@)]
            ELSE calls[d]]
    /\ UNCHANGED <<now, cache, made, defaultHeaders>>

\* the timer of a backoff wait fires.
RetryWake(c) ==
    /\ calls[c].pc = "backoff"
    /\ calls' = [calls EXCEPT ![c] = Retried(@)]
    /\ UNCHANGED <<now, cache, made, defaultHeaders>>

\* response.json() resolves; request returns or throws, and get stores the
\* data it returns.
ParseResolve(c, data) ==
    /\ calls[c].pc = "parsing"
    /\ LET call == Parsed(calls[c], data)
       IN /\ calls' = [calls EXCEPT ![c] = call]
          /\ cache' = CacheAfterRequest(cache, call, now)
          /\ made' = MadeAfterRequest(cache', call)
    /\ UNCHANGED <<now, defaultHeaders>>

\* response.json() rejects.
ParseReject(c) ==
    /\ calls[c].pc = "parsing"
    /\ calls' = [calls EXCEPT ![c] = ParseFailed(@)]
    /\ UNCHANGED <<now, cache, made, defaultHeaders>>

\* the caller takes the result or the error of a settled call.
Release(c) ==
    /\ calls[c].pc \in {"done", "failed"}
    /\ calls' = [calls EXCEPT ![c] = IdleCall]
    /\ UNCHANGED <<now, cache, made, defaultHeaders>>

\* Date.now() advances.
Tick ==
    /\ now < MaxTime
    /\ now' = now + 1
    /\ UNCHANGED <<cache, made, calls, defaultHeaders>>

\* the steps of the host
Host ==
    \/ \E c \in DOMAIN calls, s \in Statuses : FetchResolve(c, s)
    \/ \E c \in DOMAIN calls : FetchReject(c)
    \/ \E c \in DOMAIN calls : TimerFire(c)
    \/ \E c \in DOMAIN calls : RetryWake(c)
    \/ \E c \in DOMAIN calls, d \in Payloads : ParseResolve(c, d)
    \/ \E c \in DOMAIN calls : ParseReject(c)
    \/ \E c \in DOMAIN calls : Release(c)

Next ==
    \/ \E c \in DOMAIN calls, e \in Endpoints, cfg \in GetConfigs, ttl \in Ttls : Get(c, e, cfg, ttl)
    \/ \E c \in DOMAIN calls, v \in MutatingVerbs, e \in Endpoints, b \in Bodies,
          cfg \in MutConfigs : Mutate(c, v, e, b, cfg)
    \/ \E c \in DOMAIN calls, e \in Endpoints, cfg \in MutConfigs : Mutate(c, "DELETE", e, Undef, cfg)
    \/ ClearCache
    \/ Host
    \/ Tick

Spec == Init /\ [][Next]_vars

NextConfig ==
    \/ \E c \in DOMAIN calls, e \in OneEndpoint, cfg \in WideConfigs, ttl \in FewTtls :
          Get(c, e, cfg, ttl)
    \/ \E c \in DOMAIN calls, v \in MutatingVerbs, e \in OneEndpoint, b \in Bodies,
          cfg \in MutConfigs : Mutate(c, v, e, b, cfg)
    \/ \E c \in DOMAIN calls, e \in OneEndpoint, cfg \in MutConfigs : Mutate(c, "DELETE", e, Undef, cfg)
    \/ ClearCache
    \/ Host
    \* a server that answers 408 Request Timeout
    \/ \E c \in DOMAIN calls : FetchResolve(c, StatusTimeout)

SpecConfig == Init /\ [][NextConfig]_vars

\* The requests the entry points build: every method, body, headers and
\* timeout a config can carry, three sets of constructor headers, no retries.
CtorHeaders ==
    {NoHeaders, Header("Authorization", "ctor"), Header("Content-Type", "text/plain")}
CallHeaders ==
    {NoHeaders, Header("Authorization", "call"), Header("Content-Type", "text/csv")}
Timeouts == {Undef, Num(0), Num(5)}
ConfigMethods == {NoMethod, "GET", "POST"}
ConfigBodies == {Undef, Num(0), Obj(1)}
ArgBodies == {Num(0), Obj(1), Circular}
RequestConfigs ==
    {ConfigWith(m, b, h, t) :
        m \in ConfigMethods, b \in ConfigBodies, h \in CallHeaders, t \in Timeouts}
KeyConfigs == {PlainConfig, ConfigWith(NoMethod, Circular, NoHeaders, Undef)}

InitRequest ==
    /\ now = 0
    /\ cache = NoCache
    /\ made = NoCache
    /\ calls = [c \in Calls |-> IdleCall]
    /\ \E h \in CtorHeaders : defaultHeaders = Construct(h)

NextRequest ==
    \/ \E c \in DOMAIN calls, e \in OneEndpoint, cfg \in RequestConfigs : Get(c, e, cfg, Undef)
    \/ \E c \in DOMAIN calls, e \in OneEndpoint, cfg \in KeyConfigs : Get(c, e, cfg, Num(1))
    \/ \E c \in DOMAIN calls, v \in MutatingVerbs, e \in OneEndpoint, b \in ArgBodies,
          cfg \in RequestConfigs : Mutate(c, v, e, b, cfg)
    \/ \E c \in DOMAIN calls, e \in OneEndpoint, cfg \in RequestConfigs :
          Mutate(c, "DELETE", e, Undef, cfg)
    \/ \E c \in DOMAIN calls, s \in Statuses : FetchResolve(c, s)
    \/ \E c \in DOMAIN calls : FetchReject(c)
    \/ \E c \in DOMAIN calls : TimerFire(c)
    \/ \E c \in DOMAIN calls, d \in Payloads : ParseResolve(c, d)
    \/ \E c \in DOMAIN calls : ParseReject(c)
    \/ \E c \in DOMAIN calls : Release(c)

SpecRequest == InitRequest /\ [][NextRequest]_vars

\* Two calls of get in flight at once on one client: one endpoint, plain
\* configs, two TTLs; nobody calls clearCache.
TwoCalls == {1, 2}
LiveTtls == {Num(1), Num(2)}

InitConcurrent ==
    /\ now = 0
    /\ cache = NoCache
    /\ made = NoCache
    /\ calls = [c \in TwoCalls |-> IdleCall]
    /\ defaultHeaders = Construct(NoHeaders)

NextConcurrent ==
    \/ \E c \in DOMAIN calls, e \in OneEndpoint, ttl \in LiveTtls : Get(c, e, PlainConfig, ttl)
    \/ \E c \in DOMAIN calls, s \in Statuses : FetchResolve(c, s)
    \/ \E c \in DOMAIN calls : FetchReject(c)
    \/ \E c \in DOMAIN calls : TimerFire(c)
    \/ \E c \in DOMAIN calls, d \in Payloads : ParseResolve(c, d)
    \/ \E c \in DOMAIN calls : ParseReject(c)
    \/ \E c \in DOMAIN calls : Release(c)
    \/ Tick

SpecConcurrent == InitConcurrent /\ [][NextConcurrent]_vars

\* Two calls with retries in flight at once: every retries up to MaxRetries
\* and two base delays, no caching.
RetryConfigs ==
    {Config(NoMethod, Undef, Num(r), d) : r \in 0..MaxRetries, d \in {Num(1), Num(2)}}

NextRetry ==
    \/ \E c \in DOMAIN calls, e \in OneEndpoint, cfg \in RetryConfigs : Get(c, e, cfg, Undef)
    \/ Host

SpecRetry == InitConcurrent /\ [][NextRetry]_vars

\* Cached gets of one endpoint whose configs differ in body, headers,
\* timeout, retries and retryDelay, at one instant of the clock.
KeyBodies == {Undef, Num(0), EmptyObj}
KeyHeaders == {NoHeaders, Header("Authorization", "call")}
CacheKeyConfigs ==
    {ConfigWith(NoMethod, b, h, Undef) : b \in KeyBodies, h \in KeyHeaders}
      \cup {ConfigWith(NoMethod, Obj(1), NoHeaders, Undef),
            ConfigWith(NoMethod, Undef, NoHeaders, Num(5)),
            Config(NoMethod, Undef, Num(1), Num(2))}

NextKey ==
    \/ \E c \in DOMAIN calls, e \in OneEndpoint, cfg \in CacheKeyConfigs : Get(c, e, cfg, Num(1))
    \/ Host

SpecKey == Init /\ [][NextKey]_vars

\* clearCache while a cached get is in flight: one endpoint, plain configs,
\* two TTLs.
NextClear ==
    \/ \E c \in DOMAIN calls, e \in OneEndpoint, ttl \in LiveTtls : Get(c, e, PlainConfig, ttl)
    \/ ClearCacheSeen
    \/ \E c \in DOMAIN calls, s \in Statuses : FetchResolve(c, s)
    \/ \E c \in DOMAIN calls : FetchReject(c)
    \/ \E c \in DOMAIN calls : TimerFire(c)
    \/ \E c \in DOMAIN calls, d \in Payloads : ParseResolve(c, d)
    \/ \E c \in DOMAIN calls : ParseReject(c)
    \/ \E c \in DOMAIN calls : Release(c)
    \/ Tick

SpecClear == Init /\ [][NextClear]_vars

\* One call at a time whose awaits all settle: fetch resolves or rejects, a
\* backoff timer fires, response.json() resolves or rejects.
Settles(c) ==
    \/ \E s \in Statuses : FetchResolve(c, s)
    \/ FetchReject(c)
    \/ RetryWake(c)
    \/ \E d \in Payloads : ParseResolve(c, d)
    \/ ParseReject(c)

SpecLive == Init /\ [][NextRetry]_vars /\ \A c \in Calls : WF_vars(Settles(c))


(***************************************************************************)
(* What the claims speak of.                                               *)
(***************************************************************************)
RECURSIVE Pow2(_)
Pow2(n) == IF n = 0 THEN 1 ELSE 2 * Pow2(n - 1)

\* the retries the caller configured (0 when none)
RetriesOf(call) ==
    IF call.config.retries.t = "number" THEN call.config.retries.v[1] ELSE 0

\* the step takes call c from one state to another
Steps(c) == calls'[c] # calls[c]

\* the step is get's lookup of call c
GetStarts(c) == calls[c].pc = "idle" /\ calls'[c].entry = "GET"

\* the step makes call c raise its error
Fails(c) == calls[c].pc # "failed" /\ calls'[c].pc = "failed"

\* a response has been received for the call
HasResponse(call) == call.status # 0

AnyMutating == MutatingVerbs \cup {"DELETE"}

(***************************************************************************)
(* C1: when a cacheable get looks up a key whose entry was stored with a   *)
(* TTL > 0 and now is not later than the entry's expiresAt, the get        *)
(* returns the entry's data and invokes the transport zero times.          *)
(***************************************************************************)
C1_CacheHitAvoidsNetwork ==
    [][\A c \in DOMAIN calls :
        LET k == calls'[c].key
        IN (/\ GetStarts(c)
            /\ k # NoKey
            /\ k \in DOMAIN cache
            /\ made[k].ttl.v[1] > 0
            /\ now <= cache[k].expiresAt)
           => (/\ calls'[c].pc = "done"
               /\ calls'[c].attempts = 0
               /\ calls'[c].result = cache[k].data)]_vars

(***************************************************************************)
(* C2: when the timeout timer fires while an attempt is in flight the call *)
(* raises ApiError 408 there and then, and once the timer has fired the    *)
(* transport is not invoked again for that call.                           *)
(***************************************************************************)
C2_TimeoutIsTerminal ==
    [][\A c \in DOMAIN calls :
        /\ (calls[c].pc = "inflight" /\ calls[c].timer = "armed" /\ calls'[c].timer = "fired")
              => (calls'[c].pc = "failed" /\ calls'[c].err = ApiError(408, Undef))
        /\ (calls[c].timer = "fired" /\ calls'[c].timer = "fired")
              => calls'[c].attempts = calls[c].attempts]_vars

(***************************************************************************)
(* C3: with retries r and a base delay d > 0, a call whose transport       *)
(* failed k times and then answered, the timer not having fired, has       *)
(* k <= r, has invoked the transport exactly k + 1 times, has waited       *)
(* d * 2^(i-1) before its i-th retry, and fails only if the status is not  *)
(* a success or the body does not parse.                                   *)
(***************************************************************************)
C3_RetryBackoff ==
    \A c \in DOMAIN calls :
        LET call == calls[c]
            d == call.config.retryDelay
        IN (/\ HasResponse(call)
            /\ call.timer # "fired"
            /\ d.t = "number" /\ d.v[1] > 0)
           => (/\ call.netFails <= RetriesOf(call)
               /\ call.attempts = call.netFails + 1
               /\ Len(call.waits) = call.netFails
               /\ \A i \in 1..Len(call.waits) : call.waits[i] = d.v[1] * Pow2(i - 1)
               /\ call.pc \in {"parsing", "done", "failed"}
               /\ call.pc = "failed" => (~ResponseOk(call.status) \/ call.data = Undef))

C3_Witness ==
    \E c \in DOMAIN calls :
        /\ calls[c].pc = "done"
        /\ calls[c].timer = "cleared"
        /\ calls[c].config.retryDelay = Num(2)
        /\ calls[c].netFails = 2
        /\ calls[c].attempts = 3
        /\ calls[c].waits = <<2, 4>>

(***************************************************************************)
(* C4: with retries r >= 0, a call that raised with every transport        *)
(* attempt rejected by the transport itself raised ApiError with status 0  *)
(* and invoked the transport exactly r + 1 times.                          *)
(***************************************************************************)
C4_RetryExhaustion ==
    \A c \in DOMAIN calls :
        LET call == calls[c]
        IN (/\ call.pc = "failed"
            /\ ~HasResponse(call)
            /\ call.netFails = call.attempts)
           => (/\ call.err = ApiError(0, Undef)
               /\ call.attempts = RetriesOf(call) + 1)

C4_Witness ==
    \E c \in DOMAIN calls :
        /\ calls[c].pc = "failed"
        /\ calls[c].config.retries = Num(2)
        /\ calls[c].netFails = 3
        /\ calls[c].attempts = 3
        /\ calls[c].err.status = 0

(***************************************************************************)
(* C5 as stated: a call that settled on a response with a non-success      *)
(* status s raised ApiError with status s carrying the parsed body, and no *)
(* transport attempt followed the response.                                *)
(***************************************************************************)
C5_ServerErrorPassthrough_Original ==
    \A c \in DOMAIN calls :
        LET call == calls[c]
        IN (HasResponse(call) /\ ~ResponseOk(call.status))
           => (/\ call.pc \in {"parsing", "failed"}
               /\ call.pc = "failed" => call.err = ApiError(call.status, call.data))

(***************************************************************************)
(* C5 amended: a call that settled on a response with a non-success status *)
(* s whose body parsed raised ApiError with status s carrying the parsed   *)
(* body; whether or not the body parsed, no transport attempt and no       *)
(* backoff wait follows a response, whatever retries is left.              *)
(***************************************************************************)
C5_ServerErrorPassthrough ==
    \A c \in DOMAIN calls :
        LET call == calls[c]
        IN (HasResponse(call) /\ ~ResponseOk(call.status))
           => (/\ call.pc \in {"parsing", "failed"}
               /\ call.attempts = call.netFails + 1
               /\ (call.pc = "failed" /\ call.data # Undef)
                    => call.err = ApiError(call.status, call.data))

C5_Witness ==
    \E c \in DOMAIN calls :
        /\ calls[c].pc = "failed"
        /\ calls[c].status = 404
        /\ calls[c].data = Obj(1)
        /\ calls[c].err = ApiError(404, Obj(1))
        /\ calls[c].retries = 2
        /\ calls[c].attempts = 1

(***************************************************************************)
(* C6: the step by which a call raises its error leaves the cache map as   *)
(* it was: a failed call stores no entry, under its key or any other.      *)
(***************************************************************************)
C6_FailureNotCached ==
    [][\A c \in DOMAIN calls : Fails(c) => cache' = cache]_vars

C6_Witness ==
    \E c \in DOMAIN calls :
        /\ calls[c].pc = "failed"
        /\ calls[c].key # NoKey
        /\ calls[c].lookup = "absent"
        /\ calls[c].key \notin DOMAIN cache

(***************************************************************************)
(* C7: a cacheable get that looks up its key after the entry's expiresAt   *)
(* removes the entry and invokes the transport; a cacheable get whose      *)
(* request succeeds stores the data with expiresAt = now + its own TTL.    *)
(***************************************************************************)
C7_CacheExpiry ==
    [][\A c \in DOMAIN calls :
        LET k == calls'[c].key
        IN /\ (/\ GetStarts(c)
               /\ k # NoKey
               /\ k \in DOMAIN cache
               /\ now > cache[k].expiresAt)
              => (/\ calls'[c].pc = "inflight"
                  /\ calls'[c].attempts = 1
                  /\ k \notin DOMAIN cache')
           /\ (calls[c].pc = "parsing" /\ calls'[c].pc = "done" /\ k # NoKey)
              => (/\ k \in DOMAIN cache'
                  /\ cache'[k] = [data |-> calls'[c].result,
                                  timestamp |-> now,
                                  expiresAt |-> now + calls'[c].ttl.v[1]])]_vars

C7_Witness ==
    \E c \in DOMAIN calls :
        /\ calls[c].pc = "done"
        /\ calls[c].lookup = "expired"
        /\ calls[c].ttl = Num(1)
        /\ calls[c].attempts = 1
        /\ calls[c].key \in DOMAIN cache
        /\ cache[calls[c].key].expiresAt = now + 1

(***************************************************************************)
(* C8: a get with cacheTtl omitted or zero invokes the transport, does not *)
(* call getFromCache, and no step of it changes the cache map.             *)
(***************************************************************************)
C8_NoCachingWithoutTtl ==
    [][\A c \in DOMAIN calls :
        (calls'[c].entry = "GET" /\ calls'[c].ttl \in {Undef, Num(0)} /\ Steps(c))
        => (/\ cache' = cache
            /\ calls'[c].lookup = "none"
            /\ calls'[c].attempts >= 1
            /\ GetStarts(c) => (calls'[c].pc = "inflight" /\ calls'[c].attempts = 1))]_vars

C8_Witness ==
    \E c \in DOMAIN calls :
        LET k == getCacheKey(calls[c].endpoint, calls[c].config)
        IN /\ calls[c].entry = "GET"
           /\ calls[c].ttl = Num(0)
           /\ calls[c].pc = "done"
           /\ k \in DOMAIN cache
           /\ now <= cache[k].expiresAt
           /\ Truthy(cache[k].data)
           /\ cache[k].data # calls[c].result

(***************************************************************************)
(* C9: no step of a post, put, patch or delete call changes the cache map, *)
(* and such a call never calls getFromCache, whether it succeeds or fails. *)
(***************************************************************************)
C9_NonGetNeverCached ==
    [][\A c \in DOMAIN calls :
        ((calls[c].entry \in AnyMutating \/ calls'[c].entry \in AnyMutating) /\ Steps(c))
        => (/\ cache' = cache
            /\ calls'[c].lookup = "none"
            /\ calls'[c].key = NoKey)]_vars

C9_Witness ==
    \E c \in DOMAIN calls :
        LET g == getCacheKey(calls[c].endpoint, Spread("GET", Undef, PlainConfig))
        IN /\ calls[c].entry = "POST"
           /\ calls[c].pc = "done"
           /\ g \in DOMAIN cache
           /\ now <= cache[g].expiresAt
           /\ getFromCache(cache, g, now) # calls[c].result

(***************************************************************************)
(* C10: every entry of the cache map was stored by a request whose method  *)
(* is GET and by a call whose TTL is greater than 0.                       *)
(***************************************************************************)
C10_CacheCreation ==
    \A k \in DOMAIN cache : made[k].method = "GET" /\ made[k].ttl.v[1] > 0

\* the call invoked fetch at least once
Sent(call) == call.attempts >= 1

\* C11: the method of the outgoing request is the verb of the entry point
\* called, whatever config the caller passes (a config holding a method field
\* included). The code spreads config after the verb, so get with a config of
\* method POST sends a POST: the formula is violated.
C11_MethodFixedByEntryPoint ==
    \A c \in DOMAIN calls :
        Sent(calls[c]) => calls[c].options.method = calls[c].entry

\* C12: a settled call either returned a payload or raised an ApiError, never
\* an error of another type, and a transport failure is raised only when no
\* retry is left. get computes the cache key outside the try of request, so a
\* cached get whose config.body JSON.stringify rejects raises the raw
\* TypeError: the formula is violated.
C12_FailuresClassified ==
    \A c \in DOMAIN calls :
        /\ calls[c].pc = "failed" => calls[c].err.name = "ApiError"
        /\ calls[c].pc = "done" => calls[c].err = NoErr
        /\ (calls[c].pc = "failed" /\ calls[c].netFails > 0 /\ ~HasResponse(calls[c]))
              => calls[c].retries = 0

\* the failure classes of a call that raised an ApiError
TimedOut(call) == call.timer = "fired"
ServerFailed(call) == HasResponse(call) /\ call.data # Undef
TransportFailed(call) == ~TimedOut(call) /\ ~ServerFailed(call)
RaisedApiError(call) == call.pc = "failed" /\ call.err.name = "ApiError"

\* C13 as stated: the status of the ApiError tells the three failure classes
\* apart: 408 only for a timeout, 0 only for a transport or unknown failure,
\* any other status only for a response of the server. Violated: a response
\* whose own status is 408 raises status 408 too.
C13_StatusDiscriminates_Original ==
    \A c \in DOMAIN calls :
        RaisedApiError(calls[c]) =>
            /\ calls[c].err.status = StatusTimeout <=> TimedOut(calls[c])
            /\ calls[c].err.status = StatusUnknown <=> TransportFailed(calls[c])
            /\ calls[c].err.status \notin {StatusTimeout, StatusUnknown}
                  <=> ServerFailed(calls[c])

\* C13: a timeout raises status 408 without a response, a transport or
\* unknown failure raises status 0 without a response, a parsed non-success
\* response raises its own status with its body; status 0 is raised by no
\* other class, and status 408 by a timeout or by a response whose own status
\* is 408, which the response field tells apart.
C13_StatusDiscriminates ==
    \A c \in DOMAIN calls :
        RaisedApiError(calls[c]) =>
            /\ TimedOut(calls[c]) => calls[c].err = ApiError(StatusTimeout, Undef)
            /\ TransportFailed(calls[c]) => calls[c].err = ApiError(StatusUnknown, Undef)
            /\ ServerFailed(calls[c])
                  => calls[c].err = ApiError(calls[c].status, calls[c].data)
            /\ calls[c].err.status = StatusUnknown => TransportFailed(calls[c])
            /\ calls[c].err.status = StatusTimeout
                  => (TimedOut(calls[c]) <=> calls[c].err.response = Undef)
            /\ ~(TimedOut(calls[c]) /\ ServerFailed(calls[c]))

\* a response of status 408 raised status 408 while the timer never fired
C13_Witness ==
    \E c \in DOMAIN calls :
        /\ RaisedApiError(calls[c])
        /\ ServerFailed(calls[c])
        /\ calls[c].err.status = StatusTimeout
        /\ calls[c].timer = "cleared"

\* the call settled: the entry point returned or raised
Settled(call) == call.pc \in {"done", "failed"}

\* C14: no settled call has a pending timeout timer: on every path by which
\* a call that entered request settles (success, HTTP error, transport failure
\* after its retries, timeout, body-parse failure) the timer was cancelled or
\* had fired; a call served from the cache never armed one.
C14_NoLeakedTimers ==
    \A c \in DOMAIN calls :
        Settled(calls[c]) =>
            /\ calls[c].timer # "armed"
            /\ calls[c].timer = "none" => calls[c].attempts = 0
            /\ calls[c].timer = "fired" => calls[c].err = ApiError(StatusTimeout, Undef)

\* a call that failed after two transport failures, its timer cancelled
C14_Witness ==
    \E c \in DOMAIN calls :
        /\ calls[c].pc = "failed"
        /\ calls[c].netFails = 2
        /\ calls[c].timer = "cleared"
        /\ calls[c].err = ApiError(StatusUnknown, Undef)

\* C15: the timeout timer is armed with config.timeout whenever the caller
\* supplied one, 0 included, and with the default 30000 only when the field
\* is absent. request computes config.timeout || this.defaultTimeout, so a
\* supplied 0 arms the timer with 30000: the formula is violated.
C15_TimeoutLength ==
    \A c \in DOMAIN calls :
        calls[c].timer # "none" =>
            calls[c].timeout =
                IF calls[c].args.config.timeout = Undef
                THEN DefaultTimeout
                ELSE calls[c].args.config.timeout.v[1]

\* C16: the request of every post, put and patch call carries the serialized
\* body the caller passed, whatever its value, and a request whose method is
\* GET carries no body even when config.body is set. request attaches the body
\* only if (config.body && ...), so a falsy body such as 0 is not sent: the
\* formula is violated.
C16_BodyAttachment ==
    \A c \in DOMAIN calls :
        Sent(calls[c]) =>
            /\ calls[c].entry \in MutatingVerbs
                  => calls[c].options.body = Stringify(calls[c].args.body)
            /\ calls[c].options.method = "GET" => calls[c].options.body = NoBody

\* C17: the headers of the outgoing request are the engine defaults
\* (Content-Type: application/json overlaid by the constructor's headers)
\* overlaid by the config.headers of the call: a key of the caller replaces
\* the default of the same key and every other default is kept.
C17_HeaderMerge ==
    /\ \E ctor \in CtorHeaders :
          /\ DOMAIN defaultHeaders = {"Content-Type"} \cup DOMAIN ctor
          /\ \A k \in DOMAIN defaultHeaders :
                defaultHeaders[k] = IF k \in DOMAIN ctor THEN ctor[k] ELSE "application/json"
    /\ \A c \in DOMAIN calls :
          Sent(calls[c]) =>
            LET sent == calls[c].options.headers
                own == calls[c].args.config.headers
            IN /\ DOMAIN sent = DOMAIN defaultHeaders \cup DOMAIN own
               /\ \A k \in DOMAIN sent :
                     sent[k] = IF k \in DOMAIN own THEN own[k] ELSE defaultHeaders[k]

\* the caller's Content-Type replaced the default and the constructor's
\* Authorization was kept
C17_Witness ==
    \E c \in DOMAIN calls :
        /\ Sent(calls[c])
        /\ calls[c].args.config.headers = Header("Content-Type", "text/csv")
        /\ defaultHeaders =
              [k \in {"Content-Type", "Authorization"} |->
                  IF k = "Authorization" THEN "ctor" ELSE "application/json"]
        /\ calls[c].options.headers =
              [k \in {"Content-Type", "Authorization"} |->
                  IF k = "Authorization" THEN "ctor" ELSE "text/csv"]

\* C18: clearCache can be called in every state (it never raises), it leaves
\* the cache map empty whether the map was empty or populated, and on an
\* empty map it changes nothing: calling it twice is the same as once.
C18_ClearCacheIdempotent ==
    /\ ENABLED ClearCache
    /\ ~ENABLED (ClearCache /\ cache' # NoCache)
    /\ cache = NoCache => ~ENABLED (ClearCache /\ vars' # vars)

\* the entry a get stored from its response is gone while the call is still
\* held by its caller: clearCache emptied a populated map
C18_Witness ==
    \E c \in DOMAIN calls :
        /\ calls[c].pc = "done"
        /\ calls[c].key # NoKey
        /\ calls[c].attempts = 1
        /\ cache = NoCache

\* the step is the return of request to call c
Completes(c) == calls[c].pc = "parsing" /\ calls'[c].pc = "done"

\* the entry a cached get writes at time t
EntryOf(call, t) ==
    [data |-> call.data, timestamp |-> t, expiresAt |-> t + call.ttl.v[1]]

\* C19: a cached get that finds no live entry for its key misses and invokes
\* the transport, also while another get of the same key is in flight (no
\* coalescing); every such get that succeeds stores its data with expiresAt =
\* its completion time + its TTL, replacing what is there; and an entry
\* changes by no other step, so the entry left is that of the get that
\* completed last, whatever the order of issue.
C19_LastWriteWins ==
    [][\A c \in DOMAIN calls :
        /\ (GetStarts(c) /\ calls'[c].key # NoKey
                /\ calls'[c].lookup \in {"absent", "expired"})
              => (calls'[c].pc = "inflight" /\ calls'[c].attempts = 1)
        /\ (Completes(c) /\ calls[c].key # NoKey)
              => (/\ calls[c].key \in DOMAIN cache'
                  /\ cache'[calls[c].key] = EntryOf(calls'[c], now))
        /\ \A k \in DOMAIN cache \cap DOMAIN cache' :
              cache'[k] # cache[k] => \E d \in DOMAIN calls : Completes(d) /\ calls[d].key = k
      ]_vars

\* two gets of one key and TTL both found no entry (the second was issued
\* before the first completed), both fetched and both succeeded with
\* different data; the entry holds the data of the first slot's call
C19_Witness ==
    /\ DOMAIN calls = TwoCalls
    /\ \A c \in TwoCalls :
          /\ calls[c].pc = "done"
          /\ calls[c].lookup = "absent"
          /\ calls[c].attempts = 1
    /\ calls[1].key = calls[2].key
    /\ calls[1].ttl = calls[2].ttl
    /\ calls[1].data # calls[2].data
    /\ calls[1].key \in DOMAIN cache
    /\ cache[calls[1].key].data = calls[1].data

\* the attempts of the call that have failed, and the attempts that have
\* neither failed nor been answered
FailedAttempts(call) == call.netFails + call.aborts
InFlight(call) ==
    call.attempts - FailedAttempts(call) - (IF HasResponse(call) THEN 1 ELSE 0)

\* C20: the attempts of one call are strictly sequential: at most one attempt
\* is in flight, every earlier attempt has failed, and attempt n + 1 is
\* invoked only after n backoff waits were started and are over (during a
\* wait no attempt is in flight).
C20_RetriesSequential ==
    \A c \in DOMAIN calls :
        /\ InFlight(calls[c]) \in {0, 1}
        /\ InFlight(calls[c]) = 1 <=> calls[c].pc = "inflight"
        /\ calls[c].pc = "inflight" => Len(calls[c].waits) = calls[c].attempts - 1
        /\ calls[c].pc = "backoff"
              => (/\ Len(calls[c].waits) = calls[c].attempts
                  /\ FailedAttempts(calls[c]) = calls[c].attempts)
        /\ Sent(calls[c]) => Len(calls[c].waits) \in {calls[c].attempts - 1, calls[c].attempts}

\* the third attempt is in flight after two failures and two waits
C20_Witness ==
    \E c \in DOMAIN calls :
        /\ calls[c].pc = "inflight"
        /\ calls[c].attempts = 3
        /\ FailedAttempts(calls[c]) = 2
        /\ Len(calls[c].waits) = 2

\* the delay the i-th backoff wait of the call has by its own config
OwnDelay(call, i) ==
    OrElse(call.config.retryDelay, Num(DefaultRetryDelay)).v[1] * Pow2(i - 1)

\* C21: retry state is per call: a step of one call (a failure, a retry, a
\* completion) leaves the remaining retries, the delay, the attempts and the
\* waits of every other call as they are, and every call makes at most its
\* own retries + 1 attempts, waiting its own delay sequence.
C21_RetryStatePerCall ==
    [][\A c \in DOMAIN calls :
        /\ Steps(c) =>
              \A d \in DOMAIN calls \ {c} :
                  /\ calls'[d].retries = calls[d].retries
                  /\ calls'[d].delay = calls[d].delay
                  /\ calls'[d].attempts = calls[d].attempts
                  /\ calls'[d].waits = calls[d].waits
        /\ calls'[c].attempts <= RetriesOf(calls'[c]) + 1
        /\ calls'[c].pc \in {"inflight", "backoff"}
              => calls'[c].retries + calls'[c].attempts = RetriesOf(calls'[c]) + 1
        /\ \A i \in 1..Len(calls'[c].waits) : calls'[c].waits[i] = OwnDelay(calls'[c], i)
      ]_vars

\* one call has used up its single retry and failed while the other, with
\* two retries and another base delay, is in its third attempt
C21_Witness ==
    /\ DOMAIN calls = TwoCalls
    /\ calls[1].pc = "failed"
    /\ calls[1].config.retries = Num(1)
    /\ calls[1].attempts = 2
    /\ calls[1].waits = <<1>>
    /\ calls[2].pc = "inflight"
    /\ calls[2].config.retries = Num(2)
    /\ calls[2].attempts = 3
    /\ calls[2].waits = <<2, 4>>

\* the step is a get of call c that is served from the cache
Hits(c) == GetStarts(c) /\ calls'[c].pc = "done"

\* C22: a cacheable get that is served from a live entry leaves the whole
\* cache map as it was: the data, timestamp and expiresAt of the entry are
\* not refreshed and the TTL of the hitting call is not applied to it.
C22_HitHasNoSideEffects ==
    [][\A c \in DOMAIN calls :
        Hits(c) =>
            /\ cache' = cache
            /\ calls'[c].key \in DOMAIN cache
            /\ calls'[c].result = cache[calls'[c].key].data
            /\ calls'[c].attempts = 0
      ]_vars

\* a get with TTL 2 was served from an entry stored at time 0 with TTL 1, and
\* the entry still has its timestamp and its expiresAt
C22_Witness ==
    \E c \in DOMAIN calls :
        /\ calls[c].pc = "done"
        /\ calls[c].attempts = 0
        /\ calls[c].lookup = "live"
        /\ calls[c].ttl = Num(2)
        /\ calls[c].key \in DOMAIN cache
        /\ made[calls[c].key].ttl = Num(1)
        /\ cache[calls[c].key].timestamp = 0
        /\ cache[calls[c].key].expiresAt = 1
        /\ now = 1

\* the step is clearCache
Clears == cache' = NoCache /\ calls' = calls /\ now' = now

\* C23: a lookup of a key at now <= expiresAt finds the entry live: the entry
\* stays and its data is what getFromCache returns (a get whose data is
\* truthy is served); a lookup at now > expiresAt deletes the entry and the
\* get goes to the transport; and an entry leaves the map only by such a
\* lookup of its own key or by clearCache.
C23_LazyEviction ==
    [][/\ \A c \in DOMAIN calls :
            LET k == calls'[c].key
            IN (GetStarts(c) /\ k # NoKey /\ k \in DOMAIN cache) =>
                 IF now <= cache[k].expiresAt
                 THEN /\ k \in DOMAIN cache'
                      /\ cache'[k] = cache[k]
                      /\ calls'[c].lookup = "live"
                      /\ Truthy(cache[k].data)
                            => (Hits(c) /\ calls'[c].result = cache[k].data)
                 ELSE /\ k \notin DOMAIN cache'
                      /\ calls'[c].lookup = "expired"
                      /\ calls'[c].pc = "inflight"
       /\ \A k \in DOMAIN cache \ DOMAIN cache' :
            \/ Clears
            \/ \E c \in DOMAIN calls :
                  GetStarts(c) /\ calls'[c].key = k /\ now > cache[k].expiresAt
      ]_vars

\* an expired entry is still in the map after a get of another key was
\* served from its entry at the last instant of that entry's life
C23_Witness ==
    \E c \in DOMAIN calls, k \in DOMAIN cache :
        /\ now > cache[k].expiresAt
        /\ calls[c].pc = "done"
        /\ calls[c].attempts = 0
        /\ calls[c].key # NoKey
        /\ calls[c].key # k
        /\ calls[c].key \in DOMAIN cache
        /\ now = cache[calls[c].key].expiresAt
        /\ cache[calls[c].key].timestamp > cache[k].expiresAt

Active(call) == call.pc \in {"inflight", "backoff", "parsing"}

\* C25: when every await of a call settles, the call eventually returns or
\* raises; a call never invokes the transport more than retries + 1 times,
\* because every retry takes one from a remaining-retries counter that never
\* goes below 0 (remaining retries + attempts made = retries + 1).
C25_Termination ==
    \A c \in Calls :
        /\ [](/\ calls[c].attempts <= RetriesOf(calls[c]) + 1
              /\ calls[c].retries >= 0
              /\ Active(calls[c])
                    => calls[c].retries + calls[c].attempts = RetriesOf(calls[c]) + 1)
        /\ Active(calls[c]) ~> Settled(calls[c])

\* the call with the most retries has used them all and raised
C25_Witness ==
    \E c \in Calls :
        /\ calls[c].pc = "failed"
        /\ RetriesOf(calls[c]) = MaxRetries
        /\ calls[c].retries = 0
        /\ calls[c].attempts = MaxRetries + 1

\* C26: a call has one timeout timer for all its attempts: it is armed when
\* request starts and never again, and it stays armed through the backoff
\* waits. When it fires the abort rejection is retried like any failure:
\* with retries left the call waits each remaining backoff delay and invokes
\* fetch again, every such attempt being rejected by the aborted signal, and
\* ApiError 408 is raised only when no retry is left.
C26_OneTimerAbortRetried ==
    [][\A c \in DOMAIN calls :
        LET call == calls'[c]
        IN /\ (call.timer = "armed" /\ calls[c].timer # "armed") => calls[c].pc = "idle"
           /\ call.pc = "backoff" => call.timer \in {"armed", "fired"}
           /\ call.aborts > 0 => call.timer = "fired"
           /\ (call.timer = "fired" /\ calls[c].timer = "fired" /\ Steps(c)
                 /\ calls[c].pc = "backoff")
                 => (/\ call.attempts = calls[c].attempts + 1
                     /\ call.aborts = calls[c].aborts + 1)
           /\ call.timer = "fired" =>
                 /\ call.pc \in {"backoff", "failed"}
                 /\ call.pc = "backoff" => (call.retries > 0 /\ call.err = NoErr)
                 /\ call.pc = "failed" =>
                       /\ call.err = ApiError(StatusTimeout, Undef)
                       /\ call.aborts > 0
                       /\ call.retries = 0
                       /\ call.attempts = RetriesOf(call) + 1
                       /\ Len(call.waits) = RetriesOf(call)
                       /\ \A i \in 1..Len(call.waits) : call.waits[i] = OwnDelay(call, i)
      ]_vars

\* the timer fired during the first of three attempts: two backoff waits and
\* two more attempts with the aborted signal came before ApiError 408
C26_Witness ==
    \E c \in DOMAIN calls :
        /\ calls[c].pc = "failed"
        /\ calls[c].timer = "fired"
        /\ calls[c].netFails = 0
        /\ calls[c].aborts = 3
        /\ calls[c].attempts = 3
        /\ calls[c].waits = <<1, 2>>
        /\ calls[c].err = ApiError(StatusTimeout, Undef)

\* C27: the timeout covers the wait for the response only: once fetch has
\* resolved the timer is cancelled, before the body is parsed, so a call that
\* has a response has a timer that neither fired nor can fire, and its
\* timeout cannot abort it however long response.json() takes.
C27_TimeoutNotOverParsing ==
    \A c \in DOMAIN calls :
        HasResponse(calls[c]) =>
            /\ calls[c].timer = "cleared"
            /\ calls[c].aborts = 0
            /\ ~ENABLED TimerFire(c)
            /\ calls[c].pc = "failed" => calls[c].thrown.name # "AbortError"

\* the body of a response is being parsed and the timer is cancelled
C27_Witness ==
    \E c \in DOMAIN calls :
        /\ calls[c].pc = "parsing"
        /\ calls[c].status = 200
        /\ calls[c].netFails = 1
        /\ calls[c].timer = "cleared"

\* C28: clearCache does not touch a call in flight: the call goes on as it
\* was, and a cached get that missed before clearCache and succeeds after
\* it still stores its entry, so the map that clearCache emptied holds data
\* requested before the clear, without any new call.
C28_ClearCacheVsInFlight ==
    [][\A c \in DOMAIN calls :
        /\ (calls'[c].cleared /\ ~calls[c].cleared)
              => (/\ calls'[c] = [calls[c] EXCEPT !.cleared = TRUE]
                  /\ cache' = NoCache)
        /\ (Completes(c) /\ calls[c].key # NoKey /\ calls[c].cleared)
              => (/\ calls[c].key \in DOMAIN cache'
                  /\ cache'[calls[c].key] = EntryOf(calls'[c], now)
                  /\ calls'[c].result = calls'[c].data)
      ]_vars

\* the get missed (the entry of its key had expired), the cache was cleared
\* while it was in flight, and the map holds just what the get fetched
C28_Witness ==
    \E c \in DOMAIN calls :
        /\ calls[c].pc = "done"
        /\ calls[c].cleared
        /\ calls[c].lookup = "expired"
        /\ calls[c].attempts = 1
        /\ DOMAIN cache = {calls[c].key}
        /\ cache[calls[c].key].data = calls[c].data

\* C29: a value a cacheable get returns without invoking the transport is
\* the data of an entry of its key that is in the map and not expired, and
\* that entry was stored from the response to a get with the same method,
\* endpoint and body. getCacheKey maps an absent body and every falsy body to
\* the key of the body {}, so a get is served what a get with another body
\* fetched: the formula is violated.
C29_CacheIntegrity ==
    [][\A c \in DOMAIN calls :
        Hits(c) =>
            LET k == calls'[c].key
            IN /\ k \in DOMAIN cache
               /\ now <= cache[k].expiresAt
               /\ calls'[c].result = cache[k].data
               /\ made[k].method = calls'[c].config.method
               /\ made[k].endpoint = calls'[c].endpoint
               /\ made[k].body = calls'[c].config.body
      ]_vars

\* the part of the key that stands for the body
BodyKey(body) == IF Truthy(body) THEN Stringify(body) ELSE "{}"

\* C30: the cache key of a get is made of its method, its endpoint and its
\* body only, an absent or falsy body counting as the body {}: headers,
\* timeout, retries and retryDelay have no part in it, so a get is served
\* the live entry stored by a get of the same method, endpoint and body key
\* whatever headers its own request would have carried.
C30_KeyIgnoresHeaders ==
    [][\A c \in DOMAIN calls :
        LET call == calls'[c]
        IN /\ call.key # NoKey
                 => call.key = call.config.method \o ":" \o call.endpoint \o ":"
                                  \o BodyKey(call.config.body)
           /\ (GetStarts(c) /\ UseCache(call.ttl)) =>
                 \A k \in DOMAIN cache :
                    (/\ made[k].method = call.config.method
                     /\ made[k].endpoint = call.endpoint
                     /\ BodyKey(made[k].body) = BodyKey(call.config.body)
                     /\ now <= cache[k].expiresAt
                     /\ Truthy(cache[k].data))
                    => (/\ Hits(c)
                        /\ call.key = k
                        /\ call.result = cache[k].data)
      ]_vars

\* a get with an Authorization header and the body 0 was served the entry
\* stored by a get without that header and with the body {}
C30_Witness ==
    \E c \in DOMAIN calls :
        /\ calls[c].pc = "done"
        /\ calls[c].attempts = 0
        /\ calls[c].key \in DOMAIN cache
        /\ calls[c].result = cache[calls[c].key].data
        /\ calls[c].config.body = Num(0)
        /\ made[calls[c].key].body = EmptyObj
        /\ "Authorization" \in DOMAIN HeadersOf(defaultHeaders, calls[c].config)
        /\ "Authorization" \notin DOMAIN made[calls[c].key].headers

=============================================================================
